---- MODULE Spec2Model ----
(***************************************************************************)
(* A model of the minesweeper board of minesweeper.py: the construction of *)
(* an n x n grid with n mines (MainScreen.initGame / initGrid), the left   *)
(* click handler (clickCellAction), the right click handler                *)
(* (clickFlagAction), the recursive clearing of empty cells                *)
(* (clearEmptyCells) and the win / lose evaluation.                        *)
(***************************************************************************)
EXTENDS Integers, FiniteSets, Sequences, TLC

VARIABLES n, grid, mines, flags, gameover, message, pc, i, nops, lastEv, prev,
          stack, calls, expanded

vars == <<n, grid, mines, flags, gameover, message, pc, i, nops, lastEv, prev,
          stack, calls, expanded>>

(* Bounds of the model *)
MaxN == 3
MaxOps == 3
MaxScriptOps == 5
MaxStepOps == 2
LargeN == 5
MaxLargeOps == 2

(* Program constants *)
canvas_height == 800
padding == 5

-----------------------------------------------------------------------------
(* Geometry: GridCell.getCoordinates and GridCell.checkClick.  A cell is   *)
(* the pair <<row, col>>; the square it encloses runs from                 *)
(* (cellX, cellY) to (cellX + length, cellY + length).                     *)

Cells(m) == (0 .. m - 1) \X (0 .. m - 1)

length(m) == (canvas_height - padding) \div m

cellX(m, rc) == rc[2] * length(m) + padding

cellY(m, rc) == rc[1] * length(m) + padding

(* a faulty variant of the test of checkClick: the edges of the square     *)
(* count as inside                                                         *)
inCellWithEdges(m, rc, ev) ==
  /\ ev.x >= cellX(m, rc)
  /\ ev.y >= cellY(m, rc)
  /\ ev.x <= cellX(m, rc) + length(m)
  /\ ev.y <= cellY(m, rc) + length(m)

(* the click coordinates are within the grid cell *)
inCell(m, rc, ev) ==
  /\ ev.x > cellX(m, rc)
  /\ ev.y > cellY(m, rc)
  /\ ev.x < cellX(m, rc) + length(m)
  /\ ev.y < cellY(m, rc) + length(m)

(* a faulty variant of checkClick: an already clicked cell still accepts clicks *)
checkClickAny(m, rc, cell, ev) == inCell(m, rc, ev)

checkClick(m, rc, cell, ev) ==
  IF inCell(m, rc, ev) THEN ~cell.clicked ELSE FALSE

(* The pointer positions the model draws from: the centre of every cell,   *)
(* and a position on the lower edge of the grid, below the last row, which *)
(* lies in no cell.                                                        *)
centre(m, k) == k * length(m) + padding + (length(m) \div 2)

Events(m) ==
  {[x |-> centre(m, rc[2]), y |-> centre(m, rc[1])] : rc \in Cells(m)}
    \cup {[x |-> centre(m, 0), y |-> m * length(m) + padding]}

-----------------------------------------------------------------------------
(* Construction *)

GridCell == [clicked |-> FALSE, hasFlag |-> FALSE, hasMine |-> FALSE, surroundingValue |-> 0]

isInGrid(m, row, col) == ~(row < 0 \/ col < 0 \/ row >= m \/ col >= m)

(* a faulty variant of the offsets of countMines: the diagonals are left out *)
adjSquares8NoDiagonal == <<(<<-1, 0>>), (<<0, -1>>), (<<0, 1>>), (<<1, 0>>)>>

adjSquares8 ==
  <<(<<-1, -1>>), (<<-1, 0>>), (<<-1, 1>>), (<<0, -1>>),
    (<<0, 1>>), (<<1, -1>>), (<<1, 0>>), (<<1, 1>>)>>

countMines(g, m, row, col) ==
  Cardinality({k \in 1 .. Len(adjSquares8) :
                 LET r == row + adjSquares8[k][1]
                     c == col + adjSquares8[k][2]
                 IN  isInGrid(m, r, c) /\ g[<<r, c>>].hasMine})

(* a faulty variant of the membership test: a drawn pair is never rejected *)
inMinesNever(ms, r, c) == FALSE

inMines(ms, r, c) == <<r, c>> \in ms

(* the grid after the second loop of initGrid: cells created, hasMine set *)
gridWithMines(m, ms) ==
  [rc \in Cells(m) |-> [GridCell EXCEPT !.hasMine = inMines(ms, rc[1], rc[2])]]

(* the grid after the third loop of initGrid *)
gridWithCounts(m, g) ==
  [rc \in Cells(m) |->
     IF g[rc].hasMine = FALSE
     THEN [g[rc] EXCEPT !.surroundingValue = countMines(g, m, rc[1], rc[2])]
     ELSE g[rc]]

-----------------------------------------------------------------------------
(* The game object as a record, and the methods that change it *)

Self ==
  [n |-> n, grid |-> grid, mines |-> mines, flags |-> flags,
   gameover |-> gameover, message |-> message]

(* a faulty variant of loseGame: the game is not marked as over *)
loseGameNotOver(s) == [s EXCEPT !.message = "You Lose!"]

loseGame(s) == [s EXCEPT !.gameover = TRUE, !.message = "You Lose!"]

(* a faulty variant of winGame: the game is not marked as over *)
winGameNotOver(s) == [s EXCEPT !.message = "You Win!"]

winGame(s) == [s EXCEPT !.gameover = TRUE, !.message = "You Win!"]

(* a faulty variant of checkWinGame: the game is won once no flag is left *)
checkWinGameNoFlagsLeft(s) == IF s.flags > 0 THEN s ELSE winGame(s)

checkWinGame(s) ==
  IF \E rc \in s.mines : s.grid[rc].hasFlag = FALSE THEN s ELSE winGame(s)

(* a faulty variant of the offsets of clearEmptyCells: the cell below is left out *)
(* a faulty variant of adjSquares4: the fill also spreads down and right   *)
adjSquares4WithDiagonal ==
  <<(<<-1, 0>>), (<<0, -1>>), (<<0, 1>>), (<<1, 0>>), (<<1, 1>>)>>

adjSquares4NoDown == <<(<<-1, 0>>), (<<0, -1>>), (<<0, 1>>)>>

adjSquares4 == <<(<<-1, 0>>), (<<0, -1>>), (<<0, 1>>), (<<1, 0>>)>>

RECURSIVE clearEmptyCells(_, _, _)
RECURSIVE clearAdjacent(_, _, _, _)

clearAdjacent(s, row, col, k) ==
  IF k > Len(adjSquares4)
  THEN s
  ELSE clearAdjacent(clearEmptyCells(s, row + adjSquares4[k][1], col + adjSquares4[k][2]),
                     row, col, k + 1)

(* a faulty variant of clearEmptyCells: a flag it removes is not given back *)
clearEmptyCellsNoRefund(s, row, col) ==
  IF isInGrid(s.n, row, col) = FALSE
  THEN s
  ELSE LET cell == s.grid[<<row, col>>]
       IN  IF cell.surroundingValue # 0 \/ cell.hasMine \/ cell.clicked
           THEN s
           ELSE clearAdjacent([s EXCEPT !.grid[<<row, col>>].hasFlag = FALSE,
                                        !.grid[<<row, col>>].clicked = TRUE],
                              row, col, 1)

(* a faulty variant of the test of clearEmptyCells: a clicked cell is      *)
(* cleared again                                                           *)
stopsAtNotClicked(s, row, col) ==
  IF isInGrid(s.n, row, col) = FALSE
  THEN TRUE
  ELSE LET cell == s.grid[<<row, col>>]
       IN  cell.surroundingValue # 0 \/ cell.hasMine

(* the two returns of clearEmptyCells: the call changes nothing *)
stopsAt(s, row, col) ==
  IF isInGrid(s.n, row, col) = FALSE
  THEN TRUE
  ELSE LET cell == s.grid[<<row, col>>]
       IN  cell.surroundingValue # 0 \/ cell.hasMine \/ cell.clicked

(* the cell is cleared: its flag is taken off and given back, and it is    *)
(* marked as clicked                                                       *)
clearCell(s, row, col) ==
  LET cell == s.grid[<<row, col>>]
      s1 == IF cell.hasFlag
            THEN [s EXCEPT !.grid[<<row, col>>].hasFlag = FALSE,
                           !.flags = s.flags + 1]
            ELSE s
  IN  [s1 EXCEPT !.grid[<<row, col>>].clicked = TRUE]

clearEmptyCells(s, row, col) ==
  IF stopsAt(s, row, col)
  THEN s
  ELSE clearAdjacent(clearCell(s, row, col), row, col, 1)

(* the cells in the order of the two nested loops of the click handlers *)
rowMajor(m, k) == <<(k - 1) \div m, (k - 1) % m>>

RECURSIVE clickCellLoop(_, _, _)

(* a faulty variant of the loop of clickCellAction: the mine is looked at   *)
(* before the flag                                                         *)
clickCellLoopMineFirst(s, ev, k) ==
  IF k > s.n * s.n
  THEN s
  ELSE LET rc == rowMajor(s.n, k)
           cell == s.grid[rc]
       IN  IF checkClick(s.n, rc, cell, ev)
           THEN IF cell.hasMine
                THEN loseGame(s)
                ELSE IF cell.hasFlag
                     THEN s
                     ELSE LET s1 == IF cell.surroundingValue = 0
                                    THEN clearEmptyCells(s, rc[1], rc[2])
                                    ELSE s
                              s2 == [s1 EXCEPT !.grid[rc].clicked = TRUE]
                          IN  clickCellLoop(checkWinGame(s2), ev, k + 1)
           ELSE clickCellLoop(s, ev, k + 1)

(* a faulty variant of the loop of clickCellAction: a clicked cell with a  *)
(* mine is marked as clicked when the game is lost                         *)
clickCellLoopMarkMine(s, ev, k) ==
  IF k > s.n * s.n
  THEN s
  ELSE LET rc == rowMajor(s.n, k)
           cell == s.grid[rc]
       IN  IF checkClick(s.n, rc, cell, ev)
           THEN IF cell.hasFlag
                THEN s
                ELSE IF cell.hasMine
                     THEN loseGame([s EXCEPT !.grid[rc].clicked = TRUE])
                     ELSE LET s1 == IF cell.surroundingValue = 0
                                    THEN clearEmptyCells(s, rc[1], rc[2])
                                    ELSE s
                              s2 == [s1 EXCEPT !.grid[rc].clicked = TRUE]
                          IN  clickCellLoop(checkWinGame(s2), ev, k + 1)
           ELSE clickCellLoop(s, ev, k + 1)

(* a faulty variant of the loop of clickCellAction: the cells next to the  *)
(* clicked cell are cleared whatever its surrounding value is              *)
clickCellLoopClearAlways(s, ev, k) ==
  IF k > s.n * s.n
  THEN s
  ELSE LET rc == rowMajor(s.n, k)
           cell == s.grid[rc]
       IN  IF checkClick(s.n, rc, cell, ev)
           THEN IF cell.hasFlag
                THEN s
                ELSE IF cell.hasMine
                     THEN loseGame(s)
                     ELSE LET s1 == clearAdjacent(s, rc[1], rc[2], 1)
                              s2 == [s1 EXCEPT !.grid[rc].clicked = TRUE]
                          IN  clickCellLoop(checkWinGame(s2), ev, k + 1)
           ELSE clickCellLoop(s, ev, k + 1)

clickCellLoop(s, ev, k) ==
  IF k > s.n * s.n
  THEN s
  ELSE LET rc == rowMajor(s.n, k)
           cell == s.grid[rc]
       IN  IF checkClick(s.n, rc, cell, ev)
           THEN IF cell.hasFlag
                THEN s
                ELSE IF cell.hasMine
                     THEN loseGame(s)
                     ELSE LET s1 == IF cell.surroundingValue = 0
                                    THEN clearEmptyCells(s, rc[1], rc[2])
                                    ELSE s
                              s2 == [s1 EXCEPT !.grid[rc].clicked = TRUE]
                          IN  clickCellLoop(checkWinGame(s2), ev, k + 1)
           ELSE clickCellLoop(s, ev, k + 1)

clickCellAction(s, ev) == IF s.gameover THEN s ELSE clickCellLoop(s, ev, 1)

RECURSIVE clickFlagLoop(_, _, _)

(* a faulty variant of the loop of clickFlagAction: removing a flag does   *)
(* not give it back                                                        *)
clickFlagLoopNoRefund(s, ev, k) ==
  IF k > s.n * s.n
  THEN s
  ELSE LET rc == rowMajor(s.n, k)
           cell == s.grid[rc]
       IN  IF checkClick(s.n, rc, cell, ev)
           THEN IF cell.hasFlag = FALSE /\ s.flags > 0
                THEN clickFlagLoop(
                       checkWinGame([s EXCEPT !.grid[rc].hasFlag = TRUE,
                                              !.flags = s.flags - 1]),
                       ev, k + 1)
                ELSE IF cell.hasFlag
                     THEN clickFlagLoop([s EXCEPT !.grid[rc].hasFlag = FALSE], ev, k + 1)
                     ELSE clickFlagLoop(s, ev, k + 1)
           ELSE clickFlagLoop(s, ev, k + 1)

(* a faulty variant of the loop of clickFlagAction: a flag is placed even  *)
(* when none is left                                                       *)
clickFlagLoopNoLimit(s, ev, k) ==
  IF k > s.n * s.n
  THEN s
  ELSE LET rc == rowMajor(s.n, k)
           cell == s.grid[rc]
       IN  IF checkClick(s.n, rc, cell, ev)
           THEN IF cell.hasFlag = FALSE
                THEN clickFlagLoop(
                       checkWinGame([s EXCEPT !.grid[rc].hasFlag = TRUE,
                                              !.flags = s.flags - 1]),
                       ev, k + 1)
                ELSE clickFlagLoop(
                       [s EXCEPT !.grid[rc].hasFlag = FALSE, !.flags = s.flags + 1],
                       ev, k + 1)
           ELSE clickFlagLoop(s, ev, k + 1)

clickFlagLoop(s, ev, k) ==
  IF k > s.n * s.n
  THEN s
  ELSE LET rc == rowMajor(s.n, k)
           cell == s.grid[rc]
       IN  IF checkClick(s.n, rc, cell, ev)
           THEN IF cell.hasFlag = FALSE /\ s.flags > 0
                THEN clickFlagLoop(
                       checkWinGame([s EXCEPT !.grid[rc].hasFlag = TRUE,
                                              !.flags = s.flags - 1]),
                       ev, k + 1)
                ELSE IF cell.hasFlag
                     THEN clickFlagLoop(
                            [s EXCEPT !.grid[rc].hasFlag = FALSE, !.flags = s.flags + 1],
                            ev, k + 1)
                     ELSE clickFlagLoop(s, ev, k + 1)
           ELSE clickFlagLoop(s, ev, k + 1)

(* a faulty variant of clickFlagAction: the handler runs after the game is over *)
clickFlagActionAlways(s, ev) == clickFlagLoop(s, ev, 1)

clickFlagAction(s, ev) == IF s.gameover THEN s ELSE clickFlagLoop(s, ev, 1)

(* The exception a handler call on the game s ends with.  The handlers     *)
(* hold no raise statement; they index the grid with the pairs of their    *)
(* two loops over range(n), which raises IndexError when the grid lacks    *)
(* such a cell, and clearEmptyCells indexes it only behind isInGrid.       *)
raises(s, ev) ==
  IF \E k \in 1 .. s.n * s.n : rowMajor(s.n, k) \notin DOMAIN s.grid
  THEN "IndexError"
  ELSE "none"

-----------------------------------------------------------------------------
(* drawGrid: what is drawn for a cell *)

str(v) == <<"0", "1", "2", "3", "4", "5", "6", "7", "8", "9">>[v + 1]

(* a faulty variant of drawCell: a mine is drawn whether the game is over  *)
(* or not                                                                  *)
drawCellShowMines(cell, over) ==
  [fill |-> IF cell.hasFlag THEN "orange"
            ELSE IF cell.hasMine THEN "red"
            ELSE IF cell.clicked /\ cell.hasMine = FALSE THEN "light gray"
            ELSE "gray",
   oval |-> cell.hasMine,
   text |-> IF cell.clicked /\ cell.hasMine = FALSE THEN str(cell.surroundingValue) ELSE ""]

(* the rectangle, the oval and the text of one cell *)
drawCell(cell, over) ==
  [fill |-> IF cell.hasFlag THEN "orange"
            ELSE IF cell.hasMine /\ over THEN "red"
            ELSE IF cell.clicked /\ cell.hasMine = FALSE THEN "light gray"
            ELSE "gray",
   oval |-> cell.hasMine /\ over,
   text |-> IF cell.clicked /\ cell.hasMine = FALSE THEN str(cell.surroundingValue) ELSE ""]

drawGrid(s) == [rc \in Cells(s.n) |-> drawCell(s.grid[rc], s.gameover)]

-----------------------------------------------------------------------------
(* The state machine *)

NoEvent == [kind |-> "none", x |-> 0, y |-> 0]

(* initGame up to the call of initGrid *)
Init ==
  /\ n \in 1 .. MaxN
  /\ grid = [rc \in {} |-> GridCell]
  /\ mines = {}
  /\ flags = n
  /\ gameover = FALSE
  /\ message = ""
  /\ pc = "placeMines"
  /\ i = 0
  /\ nops = 0
  /\ lastEv = NoEvent
  /\ prev = [n |-> n, grid |-> [rc \in {} |-> GridCell], mines |-> {}, flags |-> n,
             gameover |-> FALSE, message |-> ""]
  /\ stack = <<>>
  /\ calls = 0
  /\ expanded = <<>>

(* one iteration of the first loop of initGrid: draw until the pair is new *)
PlaceMine ==
  /\ pc = "placeMines"
  /\ i < n
  /\ \E r \in 0 .. n - 1, c \in 0 .. n - 1 :
       /\ ~inMines(mines, r, c)
       /\ mines' = mines \cup {<<r, c>>}
  /\ i' = i + 1
  /\ UNCHANGED <<n, grid, flags, gameover, message, pc, nops, lastEv, prev,
                 stack, calls, expanded>>

(* the second and third loops of initGrid; the handlers are bound after it *)
FillGrid ==
  /\ pc = "placeMines"
  /\ i = n
  /\ grid' = gridWithCounts(n, gridWithMines(n, mines))
  /\ pc' = "mainloop"
  /\ prev' = [Self EXCEPT !.grid = grid']
  /\ UNCHANGED <<n, mines, flags, gameover, message, i, nops, lastEv,
                 stack, calls, expanded>>

Apply(s, kind, ev) ==
  /\ grid' = s.grid
  /\ flags' = s.flags
  /\ gameover' = s.gameover
  /\ message' = s.message
  /\ lastEv' = [kind |-> kind, x |-> ev.x, y |-> ev.y]
  /\ prev' = Self
  /\ nops' = nops + 1
  /\ stack' = <<>>
  /\ calls' = 0
  /\ expanded' = <<>>
  /\ UNCHANGED <<n, mines, pc, i>>

(* <Button-1> and <Button-2> with the pointer at one of the positions evs *)
Button1(evs, bound) ==
  /\ pc = "mainloop"
  /\ nops < bound
  /\ \E ev \in evs : Apply(clickCellAction(Self, ev), "click", ev)

Button2(evs, bound) ==
  /\ pc = "mainloop"
  /\ nops < bound
  /\ \E ev \in evs : Apply(clickFlagAction(Self, ev), "flag", ev)

LeftClick == Button1(Events(n), MaxOps)

RightClick == Button2(Events(n), MaxOps)

Next == PlaceMine \/ FillGrid \/ LeftClick \/ RightClick

Spec == Init /\ [][Next]_vars

(* The game in which every right click is on an unflagged cell with a mine *)
(* and every left click is on a flagged cell.                              *)
UnflaggedMineEvents ==
  {ev \in Events(n) :
     \E rc \in Cells(n) : inCell(n, rc, ev) /\ grid[rc].hasMine /\ ~grid[rc].hasFlag}

FlaggedCellEvents ==
  {ev \in Events(n) : \E rc \in Cells(n) : inCell(n, rc, ev) /\ grid[rc].hasFlag}

FlagMine == Button2(UnflaggedMineEvents, MaxScriptOps)

RevealFlagged == Button1(FlaggedCellEvents, MaxScriptOps)

NextFlagMines == PlaceMine \/ FillGrid \/ FlagMine \/ RevealFlagged

SpecFlagMines == Init /\ [][NextFlagMines]_vars

(* The left click handler in steps: one step for each call of             *)
(* clearEmptyCells.  stack holds the calls still to be made, in the order  *)
(* in which the recursion makes them; calls counts the calls made and      *)
(* expanded lists the cells cleared by the handler call.                   *)

(* the cell for which the loop of clickCellAction reaches line 222 with a  *)
(* surroundingValue of 0                                                   *)
fillCells(s, ev) ==
  {rc \in Cells(s.n) :
     /\ checkClick(s.n, rc, s.grid[rc], ev)
     /\ ~s.grid[rc].hasFlag
     /\ ~s.grid[rc].hasMine
     /\ s.grid[rc].surroundingValue = 0}

startsFill(s, ev) == ~s.gameover /\ fillCells(s, ev) # {}

(* clickCellAction up to its call of clearEmptyCells *)
StartFill(evs, bound) ==
  /\ pc = "mainloop"
  /\ nops < bound
  /\ \E ev \in evs :
       /\ startsFill(Self, ev)
       /\ stack' = <<CHOOSE rc \in fillCells(Self, ev) : TRUE>>
       /\ lastEv' = [kind |-> "click", x |-> ev.x, y |-> ev.y]
  /\ calls' = 0
  /\ expanded' = <<>>
  /\ prev' = Self
  /\ pc' = "fill"
  /\ UNCHANGED <<n, grid, mines, flags, gameover, message, i, nops>>

(* a call of clickCellAction that does not call clearEmptyCells *)
ClickNoFill(evs, bound) ==
  /\ pc = "mainloop"
  /\ nops < bound
  /\ \E ev \in evs :
       /\ ~startsFill(Self, ev)
       /\ Apply(clickCellAction(Self, ev), "click", ev)

(* one call of clearEmptyCells, up to its own calls for the adjacent cells *)
FillStep ==
  /\ pc = "fill"
  /\ stack # <<>>
  /\ LET row == Head(stack)[1]
         col == Head(stack)[2]
     IN  IF stopsAt(Self, row, col)
         THEN /\ stack' = Tail(stack)
              /\ UNCHANGED <<grid, flags, expanded>>
         ELSE /\ grid' = clearCell(Self, row, col).grid
              /\ flags' = clearCell(Self, row, col).flags
              /\ expanded' = Append(expanded, <<row, col>>)
              /\ stack' = [k \in 1 .. Len(adjSquares4) |->
                             <<row + adjSquares4[k][1], col + adjSquares4[k][2]>>]
                          \o Tail(stack)
  /\ calls' = calls + 1
  /\ UNCHANGED <<n, mines, gameover, message, pc, i, nops, lastEv, prev>>

(* clearEmptyCells has returned to clickCellAction: lines 224 and 225 and  *)
(* the rest of the two loops                                               *)
FinishFill ==
  /\ pc = "fill"
  /\ stack = <<>>
  /\ LET rc == CHOOSE rc \in fillCells(prev, lastEv) : TRUE
         k  == CHOOSE k \in 1 .. n * n : rowMajor(n, k) = rc
         s2 == [Self EXCEPT !.grid[rc].clicked = TRUE]
         s3 == clickCellLoop(checkWinGame(s2), lastEv, k + 1)
     IN  /\ grid' = s3.grid
         /\ flags' = s3.flags
         /\ gameover' = s3.gameover
         /\ message' = s3.message
  /\ pc' = "mainloop"
  /\ nops' = nops + 1
  /\ UNCHANGED <<n, mines, i, lastEv, prev, stack, calls, expanded>>

StartFillSteps == StartFill(Events(n), MaxStepOps)

LeftClickSteps == ClickNoFill(Events(n), MaxStepOps)

RightClickSteps == Button2(Events(n), MaxStepOps)

NextSteps ==
  \/ PlaceMine
  \/ FillGrid
  \/ StartFillSteps
  \/ LeftClickSteps
  \/ RightClickSteps
  \/ FillStep
  \/ FinishFill

(* a handler that has been called runs on: nothing else runs in the main   *)
(* loop of the one thread until it returns                                 *)
SpecSteps == Init /\ [][NextSteps]_vars /\ WF_vars(FillStep) /\ WF_vars(FinishFill)

(* The game on a grid of LargeN rows in which every mine is drawn at one   *)
(* of the MineSites and only the left button is used, its handler taken in *)
(* steps.  LargeN = 5 is the   *)
(* smallest grid on which two zero cells can touch at a corner without     *)
(* being joined by a third; the sites are the edge cells at the top right, *)
(* bottom left and bottom right corners that leave the middle of the grid  *)
(* free of mines.                                                          *)
MineSites ==
  {<<0, LargeN - 2>>, <<0, LargeN - 1>>, <<1, LargeN - 1>>,
   <<LargeN - 2, 0>>, <<LargeN - 1, 0>>, <<LargeN - 1, 1>>,
   <<LargeN - 1, LargeN - 1>>}

InitLarge ==
  /\ n = LargeN
  /\ grid = [rc \in {} |-> GridCell]
  /\ mines = {}
  /\ flags = n
  /\ gameover = FALSE
  /\ message = ""
  /\ pc = "placeMines"
  /\ i = 0
  /\ nops = 0
  /\ lastEv = NoEvent
  /\ prev = [n |-> n, grid |-> [rc \in {} |-> GridCell], mines |-> {}, flags |-> n,
             gameover |-> FALSE, message |-> ""]
  /\ stack = <<>>
  /\ calls = 0
  /\ expanded = <<>>

PlaceMineAtSite ==
  /\ pc = "placeMines"
  /\ i < n
  /\ \E r \in 0 .. n - 1, c \in 0 .. n - 1 :
       /\ <<r, c>> \in MineSites
       /\ ~inMines(mines, r, c)
       /\ mines' = mines \cup {<<r, c>>}
  /\ i' = i + 1
  /\ UNCHANGED <<n, grid, flags, gameover, message, pc, nops, lastEv, prev,
                 stack, calls, expanded>>

StartFillLarge == StartFill(Events(n), MaxLargeOps)

LeftClickLarge == ClickNoFill(Events(n), MaxLargeOps)

NextLarge ==
  \/ PlaceMineAtSite
  \/ FillGrid
  \/ StartFillLarge
  \/ LeftClickLarge
  \/ FillStep
  \/ FinishFill

SpecLarge == InitLarge /\ [][NextLarge]_vars

-----------------------------------------------------------------------------
(* Vocabulary of the properties *)

(* the outcome of the game: which of loseGame and winGame has ended it *)
Outcome(s) ==
  IF ~s.gameover THEN "InProgress"
  ELSE IF s.message = "You Win!" THEN "Won" ELSE "Lost"

Playing == pc = "mainloop"

MineCells(g) == {rc \in DOMAIN g : g[rc].hasMine}

FlaggedCells(g) == {rc \in DOMAIN g : g[rc].hasFlag}

ClickedCells(g) == {rc \in DOMAIN g : g[rc].clicked}

(* the cells the pointer position of an event lies in *)
HitCells(ev) == {rc \in Cells(n) : inCell(n, rc, ev)}

(* the last handler that ran was that of a left click ("click") or of a    *)
(* right click ("flag") with the pointer in cell rc; prev holds the fields *)
(* of the game as they were when that handler was called                   *)
LastEvent(kind, rc) == lastEv.kind = kind /\ inCell(n, rc, lastEv)

(* this step is the handler of a left click ("click") or of a right click  *)
(* ("flag") with the pointer in cell rc                                    *)
EventStep(kind, rc) ==
  /\ nops' = nops + 1
  /\ lastEv'.kind = kind
  /\ inCell(n, rc, lastEv')

(* a non-mine cell with no mine around it *)
ZeroCell(g, rc) == ~g[rc].hasMine /\ g[rc].surroundingValue = 0

Adjacent4(a, b) ==
  \/ a[1] = b[1] /\ (a[2] = b[2] + 1 \/ a[2] = b[2] - 1)
  \/ a[2] = b[2] /\ (a[1] = b[1] + 1 \/ a[1] = b[1] - 1)

RECURSIVE Grow(_, _)

Grow(g, R) ==
  LET R2 == R \cup {rc \in DOMAIN g : ZeroCell(g, rc) /\ \E q \in R : Adjacent4(rc, q)}
  IN  IF R2 = R THEN R ELSE Grow(g, R2)

(* the maximal 4-connected region of zero cells that holds the zero cell rc *)
Region(g, rc) == Grow(g, {rc})

(* the non-zero, non-mine cells next to a cell of R *)
Border(g, R) ==
  {rc \in DOMAIN g \ R :
     ~g[rc].hasMine /\ g[rc].surroundingValue # 0 /\ \E q \in R : Adjacent4(rc, q)}

-----------------------------------------------------------------------------
(* C1: right after construction (initGrid has returned and no click has    *)
(* been handled) exactly n cells have a mine, the n mine coordinates are   *)
(* distinct and inside the grid, n flags are left, no cell is clicked or   *)
(* flagged and the game is in progress.                                    *)
C1_AfterConstruction ==
  (Playing /\ nops = 0) =>
     /\ DOMAIN grid = Cells(n)
     /\ Cardinality(MineCells(grid)) = n
     /\ mines \subseteq Cells(n)
     /\ Cardinality(mines) = n
     /\ MineCells(grid) = mines
     /\ flags = n
     /\ ClickedCells(grid) = {}
     /\ FlaggedCells(grid) = {}
     /\ Outcome(Self) = "InProgress"

C1_Witness == Playing /\ nops = 0 /\ n = MaxN

(* C2: in every state of the game, the outcome is Won exactly when every   *)
(* cell with a mine is flagged.                                            *)
C2_WonIffAllMinesFlagged ==
  Playing => (Outcome(Self) = "Won" <=> MineCells(grid) \subseteq FlaggedCells(grid))

C2_Witness ==
  /\ Playing
  /\ n >= 2
  /\ Outcome(Self) = "Won"
  /\ Outcome(prev) = "InProgress"

(* the last left click was on an unclicked, unflagged zero cell rc while   *)
(* the game was in progress                                                *)
ZeroClick(rc) ==
  /\ Playing
  /\ LastEvent("click", rc)
  /\ ~prev.gameover
  /\ ~prev.grid[rc].clicked
  /\ ~prev.grid[rc].hasFlag
  /\ ZeroCell(prev.grid, rc)

(* C3 as stated: a click on a zero cell reveals its region of zero cells   *)
(* and the non-zero cells that border the region, and clears and refunds   *)
(* every flag on a revealed cell.                                          *)
C3_Original ==
  \A rc \in Cells(n) :
    ZeroClick(rc) =>
      LET R == Region(prev.grid, rc)
          B == Border(prev.grid, R)
      IN  /\ \A q \in R \cup B : grid[q].clicked /\ ~grid[q].hasFlag
          /\ flags = prev.flags + Cardinality(FlaggedCells(prev.grid) \cap (R \cup B))

(* C3 amended: a click on a zero cell reveals exactly its maximal          *)
(* 4-connected region of zero cells; every flag on a cell of the region is *)
(* cleared and refunded; every cell outside the region, the non-zero cells *)
(* that border it included, keeps its clicked and flag fields.             *)
C3_Amended ==
  \A rc \in Cells(n) :
    ZeroClick(rc) =>
      LET R == Region(prev.grid, rc)
      IN  /\ \A q \in Cells(n) :
               /\ grid[q].clicked = (prev.grid[q].clicked \/ q \in R)
               /\ grid[q].hasFlag = (prev.grid[q].hasFlag /\ q \notin R)
          /\ flags = prev.flags + Cardinality(FlaggedCells(prev.grid) \cap R)

(* a click has revealed a region of several zero cells, one of them        *)
(* flagged before, and a bordering non-zero cell is still not clicked      *)
C3_Witness ==
  /\ Playing
  /\ lastEv.kind = "click"
  /\ \E rc \in HitCells(lastEv) :
       /\ ZeroCell(grid, rc)
       /\ ~prev.grid[rc].clicked
       /\ grid[rc].clicked
       /\ \E q \in Region(grid, rc) \ {rc} : prev.grid[q].hasFlag /\ grid[q].clicked
       /\ \E b \in Border(grid, Region(grid, rc)) : ~grid[b].clicked

(* C4: a left click on an unflagged cell with a mine, the game in         *)
(* progress, ends the game as Lost in that call and changes no cell and no *)
(* flag count.                                                             *)
C4_MineClickLoses ==
  Playing =>
    \A rc \in Cells(n) :
      (LastEvent("click", rc) /\ Outcome(prev) = "InProgress"
         /\ prev.grid[rc].hasMine /\ ~prev.grid[rc].hasFlag)
        => (Outcome(Self) = "Lost" /\ grid = prev.grid /\ flags = prev.flags)

C4_Witness ==
  /\ Playing
  /\ lastEv.kind = "click"
  /\ Outcome(prev) = "InProgress"
  /\ Outcome(Self) = "Lost"
  /\ \E rc \in HitCells(lastEv) : grid[rc].hasMine /\ ~prev.grid[rc].hasFlag

(* C5: a click of either button that is handled when the game is over     *)
(* changes neither the outcome nor the flag count nor any cell.            *)
C5_Terminal ==
  (Playing /\ lastEv.kind # "none" /\ Outcome(prev) # "InProgress") =>
     (Outcome(Self) = Outcome(prev) /\ flags = prev.flags /\ grid = prev.grid)

(* a right click on a flagged cell, and so a flag removal had the game     *)
(* been in progress, was handled after the game was won                    *)
C5_Witness ==
  /\ Playing
  /\ Outcome(prev) = "Won"
  /\ Outcome(Self) = "Won"
  /\ lastEv.kind = "flag"
  /\ \E rc \in HitCells(lastEv) : grid[rc].hasFlag

(* C6, in the game of SpecFlagMines (from a fresh board, only flags put on *)
(* mines and left clicks on flagged cells): every right click flags its    *)
(* mine, every left click changes nothing, no cell is ever clicked, the    *)
(* game is never lost, and it is Won exactly when the last of the n mines  *)
(* has been flagged.                                                       *)
C6_FlagAllMinesWins ==
  Playing =>
    /\ \A rc \in Cells(n) :
         LastEvent("flag", rc) => FlaggedCells(grid) = FlaggedCells(prev.grid) \cup {rc}
    /\ \A rc \in Cells(n) :
         LastEvent("click", rc) => (grid = prev.grid /\ Outcome(Self) = Outcome(prev))
    /\ ClickedCells(grid) = {}
    /\ Outcome(Self) # "Lost"
    /\ Outcome(Self) = "Won" <=> FlaggedCells(grid) = MineCells(grid)

(* the flag on the last mine has just won a game of MaxN mines in which a  *)
(* flagged cell was left clicked before                                    *)
C6_Witness ==
  /\ Playing
  /\ n = MaxN
  /\ nops > n
  /\ lastEv.kind = "flag"
  /\ Outcome(prev) = "InProgress"
  /\ Outcome(Self) = "Won"
  /\ ClickedCells(grid) = {}

(* C7: in every state of the game no cell is both clicked and flagged.     *)
C7_NotClickedAndFlagged ==
  Playing => \A rc \in Cells(n) : ~(grid[rc].clicked /\ grid[rc].hasFlag)

(* a left click has revealed a cell that was flagged before it *)
C7_Witness ==
  /\ Playing
  /\ lastEv.kind = "click"
  /\ \E rc \in Cells(n) : prev.grid[rc].hasFlag /\ grid[rc].clicked

(* C8: in every state of the game the flag count lies in 0 .. n and is n   *)
(* minus the number of flagged cells.                                      *)
C8_FlagCount ==
  Playing => (flags \in 0 .. n /\ flags = n - Cardinality(FlaggedCells(grid)))

(* a left click has given a flag back *)
C8_Witness ==
  /\ Playing
  /\ lastEv.kind = "click"
  /\ flags > prev.flags

(* the right click of the step is the second of two consecutive right      *)
(* clicks at the same position, in cell rc; the cell was unclicked and the *)
(* game in progress before the first of them (prev is the state then)      *)
SecondToggle(rc) ==
  /\ Playing
  /\ EventStep("flag", rc)
  /\ lastEv.kind = "flag"
  /\ lastEv'.x = lastEv.x
  /\ lastEv'.y = lastEv.y
  /\ Outcome(prev) = "InProgress"
  /\ ~prev.grid[rc].clicked

(* C9 as stated: two consecutive right clicks on an unclicked cell, the    *)
(* game in progress, restore the flag count and leave the cell unflagged.  *)
C9_Original ==
  [][\A rc \in Cells(n) :
       SecondToggle(rc) => (flags' = prev.flags /\ ~grid'[rc].hasFlag)]_vars

(* C9 amended: two consecutive right clicks on an unclicked cell, the game *)
(* in progress before the first, restore the flag count and the flag field *)
(* of the cell (unflagged if it was unflagged), unless the first of them   *)
(* wins the game: then the second changes nothing, the cell stays flagged  *)
(* and the flag count stays one below its value before the first.          *)
C9_Amended ==
  [][\A rc \in Cells(n) :
       SecondToggle(rc) =>
         IF gameover
         THEN /\ Outcome(Self) = "Won"
              /\ ~prev.grid[rc].hasFlag
              /\ grid[rc].hasFlag
              /\ flags = prev.flags - 1
              /\ grid' = grid /\ flags' = flags /\ Outcome(Self)' = "Won"
         ELSE /\ flags' = prev.flags
              /\ grid'[rc].hasFlag = prev.grid[rc].hasFlag
              /\ Outcome(Self)' = "InProgress"]_vars

(* the second of two right clicks on a cell has removed the flag that the  *)
(* first had put on it                                                     *)
C9_Witness ==
  /\ Playing
  /\ nops = 2
  /\ lastEv.kind = "flag"
  /\ flags = n
  /\ Outcome(Self) = "InProgress"
  /\ \E rc \in HitCells(lastEv) : prev.grid[rc].hasFlag /\ ~grid[rc].hasFlag

(* the number of cells with a mine among the cells of the grid that touch  *)
(* rc by a side or a corner                                                *)
NeighbourMines(g, rc) ==
  Cardinality({q \in DOMAIN g :
                 /\ q # rc
                 /\ q[1] - rc[1] \in -1 .. 1
                 /\ q[2] - rc[2] \in -1 .. 1
                 /\ g[q].hasMine})

(* C10: in every state of the game the surrounding value of every cell     *)
(* without a mine is the number of mines among its neighbours inside the   *)
(* grid, a number in 0 .. 8, and no click of either button changes the     *)
(* hasMine or the surroundingValue field of a cell.                        *)
C10_SurroundingValue ==
  Playing =>
    \A rc \in Cells(n) :
      /\ ~grid[rc].hasMine =>
           /\ grid[rc].surroundingValue = NeighbourMines(grid, rc)
           /\ grid[rc].surroundingValue \in 0 .. 8
      /\ grid[rc].hasMine = prev.grid[rc].hasMine
      /\ grid[rc].surroundingValue = prev.grid[rc].surroundingValue

(* the corner cell <<0, 0>> has been revealed with its three neighbours    *)
(* mined, on a grid where it also has five absent neighbours               *)
C10_Witness ==
  /\ Playing
  /\ n = MaxN
  /\ grid[<<0, 0>>].clicked
  /\ grid[<<0, 0>>].surroundingValue = 3

(* C11: a left click on a flagged cell, with or without a mine, changes    *)
(* neither the outcome nor the flag count nor any cell.                    *)
C11_FlaggedClickNoOp ==
  Playing =>
    \A rc \in Cells(n) :
      (LastEvent("click", rc) /\ prev.grid[rc].hasFlag)
        => (Outcome(Self) = Outcome(prev) /\ flags = prev.flags /\ grid = prev.grid)

(* a flagged cell with a mine has been left clicked, the game in progress *)
C11_Witness ==
  /\ Playing
  /\ Outcome(prev) = "InProgress"
  /\ \E rc \in Cells(n) :
       LastEvent("click", rc) /\ prev.grid[rc].hasFlag /\ prev.grid[rc].hasMine

(* the last left click was on an unclicked, unflagged cell rc without a    *)
(* mine and with a surrounding value other than 0, the game in progress    *)
NonZeroClick(rc) ==
  /\ Playing
  /\ LastEvent("click", rc)
  /\ Outcome(prev) = "InProgress"
  /\ ~prev.grid[rc].clicked
  /\ ~prev.grid[rc].hasFlag
  /\ ~prev.grid[rc].hasMine
  /\ prev.grid[rc].surroundingValue # 0

(* C17: a left click on an unflagged, unclicked cell without a mine whose  *)
(* surrounding value is not 0, the game in progress, sets clicked on that  *)
(* cell and changes no other cell, no flag and no flag count.              *)
C17_NonZeroClickRevealsOne ==
  \A rc \in Cells(n) :
    NonZeroClick(rc) =>
      /\ grid = [prev.grid EXCEPT ![rc].clicked = TRUE]
      /\ flags = prev.flags

(* mines on the diagonal of a 3 x 3 grid: the left click on <<2, 0>>, of   *)
(* surrounding value 1, has left the flag on its neighbour <<1, 0>>        *)
C17_Witness ==
  /\ n = 3
  /\ mines = {<<0, 0>>, <<1, 1>>, <<2, 2>>}
  /\ NonZeroClick(<<2, 0>>)
  /\ grid[<<2, 0>>].clicked
  /\ grid[<<1, 0>>].hasFlag

(* C18: in every state of the game no cell with a mine is clicked.         *)
C18_NoMineClicked ==
  Playing => \A rc \in Cells(n) : ~(grid[rc].hasMine /\ grid[rc].clicked)

(* a game of MaxN mines has been lost by a left click on a cell with a    *)
(* mine after another cell was revealed, and the mine is not clicked       *)
C18_Witness ==
  /\ Playing
  /\ n = MaxN
  /\ Outcome(Self) = "Lost"
  /\ ClickedCells(grid) # {}
  /\ \E rc \in Cells(n) : LastEvent("click", rc) /\ grid[rc].hasMine /\ ~grid[rc].clicked

(* C19: in every state of the game, every zero cell that is next, by a     *)
(* side, to a clicked zero cell is clicked and not flagged.                *)
C19_ZeroRegionClosed ==
  Playing =>
    \A rc \in Cells(n), q \in Cells(n) :
      (ZeroCell(grid, rc) /\ grid[rc].clicked /\ ZeroCell(grid, q) /\ Adjacent4(rc, q))
        => (grid[q].clicked /\ ~grid[q].hasFlag)

(* a clicked zero cell has a zero cell below it, which was flagged before  *)
(* the last left click                                                     *)
C19_Witness ==
  /\ Playing
  /\ lastEv.kind = "click"
  /\ \E rc \in Cells(n), q \in Cells(n) :
       /\ ZeroCell(grid, rc) /\ grid[rc].clicked
       /\ ZeroCell(grid, q) /\ q[1] = rc[1] + 1 /\ q[2] = rc[2]
       /\ prev.grid[q].hasFlag

(* C20: whenever the game is Won no flag is left and the flagged cells are *)
(* exactly the cells with a mine; and the handler call that ends a game as *)
(* Won is a right click that puts a flag on a cell.                        *)
C20_WonByFlagPlacement ==
  Playing =>
    /\ Outcome(Self) = "Won" => (flags = 0 /\ FlaggedCells(grid) = MineCells(grid))
    /\ (Outcome(prev) = "InProgress" /\ Outcome(Self) = "Won") =>
         \E rc \in Cells(n) :
           LastEvent("flag", rc) /\ ~prev.grid[rc].hasFlag /\ grid[rc].hasFlag

(* a game of MaxN mines has just been won *)
C20_Witness ==
  /\ Playing
  /\ n = MaxN
  /\ Outcome(prev) = "InProgress"
  /\ Outcome(Self) = "Won"
  /\ flags = 0

(* the row and the column of the grid a pointer position falls in *)
RowOf(ev) == (ev.y - padding) \div length(n)

ColOf(ev) == (ev.x - padding) \div length(n)

OutOfBounds(ev) == RowOf(ev) \notin 0 .. n - 1 \/ ColOf(ev) \notin 0 .. n - 1

C13_Original ==
  (Playing /\ n = 1) =>
     /\ grid[<<0, 0>>].hasMine
     /\ LastEvent("click", <<0, 0>>) => Outcome(Self) = "Lost"

(* C13 amended: on the 1 x 1 grid the cell has a mine, and a left click on *)
(* it ends with the game Lost when the game was in progress or Lost        *)
(* before; once the cell has been flagged the game is Won and a left click *)
(* leaves it Won.                                                          *)
C13_Amended ==
  (Playing /\ n = 1) =>
     /\ grid[<<0, 0>>].hasMine
     /\ LastEvent("click", <<0, 0>>) =>
          IF prev.grid[<<0, 0>>].hasFlag
          THEN Outcome(prev) = "Won" /\ Outcome(Self) = "Won"
          ELSE Outcome(Self) = "Lost"

(* the first left click on the 1 x 1 grid has lost the game *)
C13_Witness ==
  /\ Playing
  /\ n = 1
  /\ LastEvent("click", <<0, 0>>)
  /\ Outcome(prev) = "InProgress"
  /\ Outcome(Self) = "Lost"

(* what is drawn for the cell rc had it a mine where it has none, and none *)
(* where it has one                                                        *)
OtherMineView(rc) == drawCell([grid[rc] EXCEPT !.hasMine = ~grid[rc].hasMine], gameover)

(* C14 as stated: unless the game is Lost, what is drawn for an unclicked  *)
(* cell does not depend on whether the cell has a mine.                    *)
C14_Original ==
  (Playing /\ Outcome(Self) # "Lost") =>
     \A rc \in Cells(n) : ~grid[rc].clicked => drawGrid(Self)[rc] = OtherMineView(rc)

(* C14 amended: while the game is in progress what is drawn for an         *)
(* unclicked cell depends only on its flag (orange if flagged, gray if     *)
(* not, no oval, no text); once the game is over, Won as well as Lost, an  *)
(* unclicked cell is drawn with the oval of a mine exactly if it has one.  *)
C14_Amended ==
  Playing =>
    \A rc \in Cells(n) :
      ~grid[rc].clicked =>
        IF Outcome(Self) = "InProgress"
        THEN /\ drawGrid(Self)[rc] = OtherMineView(rc)
             /\ drawGrid(Self)[rc] =
                  [fill |-> IF grid[rc].hasFlag THEN "orange" ELSE "gray",
                   oval |-> FALSE, text |-> ""]
        ELSE drawGrid(Self)[rc].oval = grid[rc].hasMine

(* the game is Won on a grid of MaxN mines and the flagged mines are drawn *)
(* with their ovals                                                        *)
C14_Witness ==
  /\ Playing
  /\ n = MaxN
  /\ Outcome(Self) = "Won"
  /\ \E rc \in Cells(n) :
       ~grid[rc].clicked /\ grid[rc].hasFlag /\ drawGrid(Self)[rc].oval

(* the cells a and b touch at a corner *)
Diagonal(a, b) ==
  (a[1] = b[1] + 1 \/ a[1] = b[1] - 1) /\ (a[2] = b[2] + 1 \/ a[2] = b[2] - 1)

(* the cells the last handler call has marked clicked *)
NewlyClicked == {q \in Cells(n) : grid[q].clicked /\ ~prev.grid[q].clicked}

(* C15: a left click on an unflagged zero cell rc reveals, besides rc,     *)
(* only zero cells without a mine that a path of up, down, left and right  *)
(* steps through zero cells joins to rc; a zero cell that touches the      *)
(* region only at a corner, or lies behind non-zero or mined cells, is not *)
(* revealed by the call.                                                   *)
C15_FourConnected ==
  \A rc \in Cells(n) :
    ZeroClick(rc) =>
      LET R == Region(prev.grid, rc)
      IN  /\ \A q \in NewlyClicked \ {rc} : ZeroCell(prev.grid, q) /\ q \in R
          /\ \A q \in Cells(n) \ R :
               ZeroCell(prev.grid, q) => grid[q].clicked = prev.grid[q].clicked

(* a click has revealed a region of zero cells, and a zero cell that       *)
(* touches a cell of the region at a corner, without being next to any, is *)
(* still not clicked                                                       *)
C15_Witness ==
  /\ Playing
  /\ \E rc \in Cells(n) :
       /\ ZeroClick(rc)
       /\ \E q \in Cells(n) \ Region(prev.grid, rc) :
            /\ ZeroCell(grid, q)
            /\ ~grid[q].clicked
            /\ \E a \in Region(prev.grid, rc) : Diagonal(a, q) /\ grid[a].clicked

NoDuplicates(q) == \A a, b \in 1 .. Len(q) : a # b => q[a] # q[b]

(* while clearEmptyCells runs and after it: no cell has been cleared       *)
(* twice, every cleared cell is a cell of the grid and is marked clicked,  *)
(* every cell cleared has caused one call for each of its adjacent         *)
(* squares, and when the handler has returned the game is in the state     *)
(* that the recursion of clearEmptyCells gives                             *)
FillBounded ==
  /\ pc = "fill" =>
       /\ NoDuplicates(expanded)
       /\ \A k \in 1 .. Len(expanded) :
            expanded[k] \in Cells(n) /\ grid[expanded[k]].clicked
       /\ Len(expanded) <= n * n
       /\ calls + Len(stack) = 1 + Len(adjSquares4) * Len(expanded)
  /\ (pc = "mainloop" /\ lastEv.kind = "click") =>
       /\ Self = clickCellAction(prev, lastEv)
       /\ NoDuplicates(expanded)
       /\ Len(expanded) <= n * n
       /\ startsFill(prev, lastEv) => calls = 1 + Len(adjSquares4) * Len(expanded)

(* C16: the calls of clearEmptyCells that a left click starts come to an   *)
(* end for every layout of the mines and every state of the flags and the  *)
(* clicked cells: a cell is marked clicked before the calls for its        *)
(* adjacent squares are made, so no cell is cleared twice, at most n * n   *)
(* cells are cleared, and the handler returns.                             *)
C16_FillTerminates == []FillBounded /\ ((pc = "fill") ~> (pc = "mainloop"))

(* a left click on a grid of MaxN rows on which a cell had been flagged    *)
(* has cleared three cells, the flagged cell among them, and the handler   *)
(* has returned                                                            *)
C16_Witness ==
  /\ pc = "mainloop"
  /\ n = MaxN
  /\ lastEv.kind = "click"
  /\ Len(expanded) >= 3
  /\ calls = 1 + Len(adjSquares4) * Len(expanded)
  /\ \E k \in 1 .. Len(expanded) : prev.grid[expanded[k]].hasFlag

====
